---- MODULE Spec2Model ----
(***************************************************************************)
(* Model of the two LRU caches of the repository:                          *)
(*   - dll_lru_cache.py: LRUCache built from a dict of nodes and a doubly  *)
(*     linked list (_DLListNode, _DLList) ordered from most recently used  *)
(*     (front) to least recently used (back);                              *)
(*   - main.py: LRUCache built on the insertion order of a single dict.    *)
(* Nodes are heap objects: their links are modelled as the functions prv   *)
(* and nxt over node identities, data as the item each node carries.       *)
(***************************************************************************)
EXTENDS Integers, Sequences, FiniteSets, TLC

\* ------------------------------------------------------------------ bounds
MaxCap == 2        \* largest max_size a cache is constructed with
MaxCapMain == 3    \* largest max_size of a main.py cache used on its own
MaxCalls == 3      \* calls the two threads start, in all

\* --------------------------------------------------------------- constants
None == 0          \* Python's None (a link, a value or a default)
MISSING == -1      \* the module's _MISSING sentinel object

Keys == {1, 10, 100}
Values == {2, 20, 200}
Defaults == {MISSING, None, 20}
Nodes == 1..(MaxCap + 1)

VARIABLES
    prv, nxt,        \* _DLListNode._prv / ._nxt of every node
    data,            \* _DLListNode.data: the _Item (key, value) of every node
    front, back,     \* _DLList._front / ._back
    dict,            \* LRUCache._dict: key -> node
    max_size,        \* LRUCache._max_size
    call,            \* the call made last (operation and arguments)
    ret,             \* what the call made last returned or raised
    recency,         \* the keys accessed so far (by a put or by a get that
                     \* hit), from the last accessed to the first accessed
    lastPut,         \* key -> value of its most recent put (None: never put)
    hit,             \* whether the call made last found its key in _dict
    scen,            \* n: the calls made so far are exactly the first n
                     \* calls of main(); Off: they are not
    m_dict,          \* main.py LRUCache._dict: the (key, value) pairs in the
                     \* dict's iteration (insertion) order
    m_max_size,      \* main.py LRUCache._max_size
    m_ret,           \* what the last call on the main.py cache returned
    arg,             \* the argument LRUCache(...) was last called with
    pc,              \* thread -> "idle" or the line of put/get it executes next
    loc,             \* thread -> the local variables of its call
    exc,             \* thread -> the exception its last call raised, or "none"
    ncalls,          \* the number of calls the threads have started
    lock             \* whether a lock is held for the whole of every call

vars == <<prv, nxt, data, front, back, dict, max_size,
          call, ret, hit, recency, lastPut, scen, m_dict, m_max_size, m_ret,
          arg, pc, loc, exc, ncalls, lock>>

dllVars == <<prv, nxt, data, front, back, dict, max_size, ret, hit,
             recency, lastPut, scen>>
mainVars == <<m_dict, m_max_size, m_ret>>
thrVars == <<pc, loc, exc, ncalls, lock>>
auxVars == <<arg, pc, loc, exc, ncalls, lock>>

\* ------------------------------------------------------------ _DLListNode
NoItem == [key |-> None, value |-> None]

\* The whole object graph of one cache as a record.
Cache ==
    [prv |-> prv, nxt |-> nxt, data |-> data, front |-> front, back |-> back,
     dict |-> dict, max_size |-> max_size]

\* The ejected node keeps its own links.
node_eject_keeplinks(S, n) ==
    LET s1 == IF S.prv[n] # None
              THEN [S EXCEPT !.nxt[S.prv[n]] = S.nxt[n]] ELSE S
    IN  IF s1.nxt[n] # None
        THEN [s1 EXCEPT !.prv[s1.nxt[n]] = s1.prv[n]] ELSE s1

\* _DLListNode.eject: three statements, each reading the links the
\* statement before it left.
node_eject(S, n) ==
    LET s1 == IF S.prv[n] # None
              THEN [S EXCEPT !.nxt[S.prv[n]] = S.nxt[n]] ELSE S
        s2 == IF s1.nxt[n] # None
              THEN [s1 EXCEPT !.prv[s1.nxt[n]] = s1.prv[n]] ELSE s1
    IN  [s2 EXCEPT !.prv[n] = None, !.nxt[n] = None]

\* nxt._prv is not set: the node after the new one still points back to
\* the node before it.
insert_between_oneway(S, n, p, x) ==
    LET s1 == IF p # None THEN [S EXCEPT !.nxt[p] = n] ELSE S
    IN  [s1 EXCEPT !.prv[n] = p, !.nxt[n] = x]

\* _DLListNode.insert_between
insert_between(S, n, p, x) ==
    LET s1 == IF p # None THEN [S EXCEPT !.nxt[p] = n] ELSE S
        s2 == IF x # None THEN [s1 EXCEPT !.prv[x] = n] ELSE s1
    IN  [s2 EXCEPT !.prv[n] = p, !.nxt[n] = x]

\* ----------------------------------------------------------------- _DLList
empty(S) == S.back = None

push_back(S, n) ==
    LET s1 == [insert_between(S, n, S.back, None) EXCEPT !.back = n]
    IN  IF s1.front = None THEN [s1 EXCEPT !.front = n] ELSE s1

\* The node is linked in at the wrong end.
push_front_back(S, n) == push_back(S, n)

\* The list forgets to record the first node as its back.
push_front_noback(S, n) ==
    [insert_between(S, n, None, S.front) EXCEPT !.front = n]

push_front(S, n) ==
    LET s1 == [insert_between(S, n, None, S.front) EXCEPT !.front = n]
    IN  IF s1.back = None THEN [s1 EXCEPT !.back = n] ELSE s1

\* The list's back is not updated when the back node is ejected.
eject_keepback(S, n) ==
    LET s1 == IF S.front = n THEN [S EXCEPT !.front = S.nxt[n]] ELSE S
    IN  node_eject(s1, n)

eject(S, n) ==
    LET s1 == IF S.front = n THEN [S EXCEPT !.front = S.nxt[n]] ELSE S
        s2 == IF s1.back = n THEN [s1 EXCEPT !.back = s1.prv[n]] ELSE s1
    IN  node_eject(s2, n)

\* pop_front / pop_back: the list after the call, the node returned
\* and whether IsEmptyError was raised.
pop_front(S) ==
    IF S.front = None
    THEN [state |-> S, node |-> None, raised |-> TRUE]
    ELSE [state |-> eject(S, S.front), node |-> S.front, raised |-> FALSE]

\* The wrong end: the most recently used node is taken.
pop_back_front(S) == pop_front(S)

pop_back(S) ==
    IF S.back = None
    THEN [state |-> S, node |-> None, raised |-> TRUE]
    ELSE [state |-> eject(S, S.back), node |-> S.back, raised |-> FALSE]

\* The node is left where it is.
move_to_front_noop(S, n) == S

\* self._back is moved instead of node, whatever the front is.
move_to_front_rotate(S, n) == push_front(eject(S, S.back), S.back)

move_to_front(S, n) ==
    IF n # S.front THEN push_front(eject(S, n), n) ELSE S

move_to_back(S, n) ==
    IF n # S.back THEN push_back(eject(S, n), n) ELSE S

\* ------------------------------------------------------------- observation
\* The nodes met by following nxt from node n, at most fuel of them.
RECURSIVE Walk(_, _, _)
Walk(S, n, fuel) ==
    IF n = None \/ fuel = 0 THEN <<>>
    ELSE <<n>> \o Walk(S, S.nxt[n], fuel - 1)

\* The nodes met by following prv from node n, at most fuel of them.
RECURSIVE WalkBack(_, _, _)
WalkBack(S, n, fuel) ==
    IF n = None \/ fuel = 0 THEN <<>>
    ELSE <<n>> \o WalkBack(S, S.prv[n], fuel - 1)

Range(f) == {f[x] : x \in DOMAIN f}

ListNodes(S) == Walk(S, S.front, Cardinality(Nodes) + 1)
ListKeys(S) == [i \in 1..Len(ListNodes(S)) |-> S.data[ListNodes(S)[i]].key]

\* Node objects no live reference leads to: neither the list nor the dict
\* holds them, so the allocator may hand them out again.
FreeNodes(S) == Nodes \ (Range(ListNodes(S)) \cup Range(S.dict))

\* ---------------------------------------------------------------- LRUCache
\* Off by one: a cache holding exactly max_size entries is not yet full.
full_strict(S) == S.max_size # None /\ Cardinality(DOMAIN S.dict) > S.max_size

\* The cache counts as full one entry early.
full_early(S) == Cardinality(DOMAIN S.dict) + 1 >= S.max_size

full(S) == S.max_size # None /\ Cardinality(DOMAIN S.dict) >= S.max_size

Returned(v) == [kind |-> "return", val |-> v]
Raised(e) == [kind |-> e, val |-> None]

\* The evicted key is left in the dict.
DictDel_kept(d, k) == d

\* dict with key k removed / bound to node n
DictDel(d, k) == [x \in (DOMAIN d) \ {k} |-> d[x]]
DictSet(d, k, n) == [x \in (DOMAIN d) \cup {k} |-> IF x = k THEN n ELSE d[x]]

\* The node is moved but its item keeps the old value.
put_hit_stale(S, key, value) ==
    [state |-> move_to_front(S, S.dict[key]), result |-> Returned(None)]

\* LRUCache.put, key present (lines 163-167): the node moves to the front
\* and its item takes the new value.
put_hit(S, key, value) ==
    LET node == S.dict[key]
        s1 == move_to_front(S, node)
    IN  [state |-> [s1 EXCEPT !.data[node].value = value],
         result |-> Returned(None)]

\* LRUCache.put, key absent (lines 169-176); fresh is the node object the
\* call allocates.
put_miss(S, key, value, fresh) ==
    LET popped == IF full(S) THEN pop_back(S)
                  ELSE [state |-> S, node |-> None, raised |-> FALSE]
        s1 == popped.state
        lru_key == s1.data[popped.node].key
    IN  IF popped.raised
        THEN [state |-> s1, result |-> Raised("IsEmptyError")]
        ELSE IF full(S) /\ lru_key \notin DOMAIN s1.dict
        THEN [state |-> s1, result |-> Raised("KeyError")]
        ELSE LET s2 == IF full(S)
                       THEN [s1 EXCEPT !.dict = DictDel(s1.dict, lru_key)]
                       ELSE s1
                 s3 == [s2 EXCEPT !.data[fresh] =
                                      [key |-> key, value |-> value],
                                  !.prv[fresh] = None,
                                  !.nxt[fresh] = None]
                 s4 == [s3 EXCEPT !.dict = DictSet(s3.dict, key, fresh)]
             IN  [state |-> push_front(s4, fresh),
                  result |-> Returned(None)]

\* No lookup of the key first: every put takes the insertion path, as the
\* put of main.py does.
put_unchecked(S, key, value, fresh) == put_miss(S, key, value, fresh)

\* LRUCache.put
put(S, key, value, fresh) ==
    IF key \in DOMAIN S.dict
    THEN put_hit(S, key, value)
    ELSE put_miss(S, key, value, fresh)

\* A miss with a default stores the default under the key, as
\* dict.setdefault would.
get_setdefault(S, key, default_value) ==
    IF key \in DOMAIN S.dict
    THEN LET node == S.dict[key]
             s1 == move_to_front(S, node)
         IN  [state |-> s1, result |-> Returned(s1.data[node].value)]
    ELSE IF default_value # MISSING
         THEN [state |-> put_miss(S, key, default_value,
                                  CHOOSE n \in FreeNodes(S) : TRUE).state,
               result |-> Returned(default_value)]
         ELSE [state |-> S, result |-> Raised("KeyError")]

\* None, not _MISSING, stands for "no default supplied".
get_none_sentinel(S, key, default_value) ==
    IF key \in DOMAIN S.dict
    THEN LET node == S.dict[key]
             s1 == move_to_front(S, node)
         IN  [state |-> s1, result |-> Returned(s1.data[node].value)]
    ELSE IF default_value # MISSING /\ default_value # None
         THEN [state |-> S, result |-> Returned(default_value)]
         ELSE [state |-> S, result |-> Raised("KeyError")]

\* LRUCache.get
get(S, key, default_value) ==
    IF key \in DOMAIN S.dict
    THEN LET node == S.dict[key]
             s1 == move_to_front(S, node)
         IN  [state |-> s1, result |-> Returned(s1.data[node].value)]
    ELSE IF default_value # MISSING
         THEN [state |-> S, result |-> Returned(default_value)]
         ELSE [state |-> S, result |-> Raised("KeyError")]

\* The arguments LRUCache is constructed with: an int, nothing (the
\* default None), a float (2.0) or a str ("2").
IntArg(v) == [type |-> "int", val |-> v]
NoArg == [type |-> "NoneType", val |-> None]
Args ==
    {IntArg(v) : v \in -1..MaxCap}
        \cup {NoArg, [type |-> "float", val |-> 2], [type |-> "str", val |-> 2]}

\* A cache that was never built: nothing to call get or put on.
NoCache ==
    [prv |-> [n \in Nodes |-> None], nxt |-> [n \in Nodes |-> None],
     data |-> [n \in Nodes |-> NoItem], front |-> None, back |-> None,
     dict |-> << >>, max_size |-> None]

\* Zero passes the test of the capacity.
LRUCache_init_zero(a) ==
    IF a.type # "int"
    THEN [state |-> NoCache, result |-> Raised("TypeError")]
    ELSE IF a.val < 0
    THEN [state |-> NoCache, result |-> Raised("ValueError")]
    ELSE [state |-> [NoCache EXCEPT !.max_size = a.val],
          result |-> Returned(None)]

\* LRUCache.__init__
LRUCache_init(a) ==
    IF a.type # "int"
    THEN [state |-> NoCache, result |-> Raised("TypeError")]
    ELSE IF a.val <= 0
    THEN [state |-> NoCache, result |-> Raised("ValueError")]
    ELSE [state |-> [NoCache EXCEPT !.max_size = a.val],
          result |-> Returned(None)]

\* ------------------------------------------------------- main.py LRUCache
\* A Python dict keeps its keys in insertion order: a sequence of items.
MCache == [dict |-> m_dict, max_size |-> m_max_size]

MKeys(d) == {d[i].key : i \in 1..Len(d)}
MKeySeq(d) == [i \in 1..Len(d) |-> d[i].key]
MValue(d, k) == d[CHOOSE i \in 1..Len(d) : d[i].key = k].value

\* dict.pop(k): the item of key k leaves the order
m_pop(d, k) == SelectSeq(d, LAMBDA it : it.key # k)

\* dict[k] = v: a present key keeps its place, a new key goes last
m_setitem(d, k, v) ==
    IF k \in MKeys(d)
    THEN [i \in 1..Len(d) |-> IF d[i].key = k
                              THEN [key |-> k, value |-> v] ELSE d[i]]
    ELSE Append(d, [key |-> k, value |-> v])

m_full(M) == Len(M.dict) >= M.max_size

\* main.py LRUCache.get
m_get(M, key, default_value) ==
    IF key \in MKeys(M.dict)
    THEN LET value == MValue(M.dict, key)
             d1 == m_pop(M.dict, key)
         IN  [state |-> [M EXCEPT !.dict = m_setitem(d1, key, value)],
              result |-> Returned(value)]
    ELSE IF default_value = MISSING
         THEN [state |-> M, result |-> Raised("KeyError")]
         ELSE [state |-> M, result |-> Returned(default_value)]

\* main.py LRUCache.put
m_put(M, key, value) ==
    IF m_full(M) /\ Len(M.dict) = 0
    THEN [state |-> M, result |-> Raised("StopIteration")]
    ELSE LET d1 == IF m_full(M) THEN m_pop(M.dict, M.dict[1].key)
                   ELSE M.dict
         IN  [state |-> [M EXCEPT !.dict = m_setitem(d1, key, value)],
              result |-> Returned(None)]

\* Reference counting: a node nothing refers to any more is deallocated
\* when the call returns, and the item it carried goes with it.
Collect(S) ==
    [S EXCEPT !.data = [n \in Nodes |->
                           IF n \in FreeNodes(S) THEN NoItem ELSE S.data[n]]]

\* ------------------------------------------------------- main() of the file
Call(op, k, v, d) == [op |-> op, key |-> k, value |-> v, default |-> d]

Scenario ==
    << Call("put", 1, 2, MISSING), Call("put", 10, 20, MISSING),
       Call("get", 1, None, MISSING), Call("put", 100, 200, MISSING),
       Call("get", 10, None, None), Call("get", 1, None, MISSING) >>

ScenarioCap == 2

Off == -1

ScenNext(c) ==
    IF scen # Off /\ max_size = ScenarioCap /\ scen < Len(Scenario)
       /\ c = Scenario[scen + 1]
    THEN scen + 1 ELSE Off

\* The keys accessed so far once key k is accessed: k is now the last one.
Touch(r, k) == <<k>> \o SelectSeq(r, LAMBDA x : x # k)

\* ----------------------------------------------------------------- threads
Threads == {1, 2}

\* The values the threads put.
ThreadValues == {2, 20}

\* The locals of put and get; node is None before line 162 has run.
NoLocals == [key |-> None, value |-> None, node |-> None, lru_node |-> None]

NoThreads ==
    /\ pc = [t \in Threads |-> "idle"]
    /\ loc = [t \in Threads |-> NoLocals]
    /\ exc = [t \in Threads |-> "none"]
    /\ ncalls = 0

\* -------------------------------------------------------------------- Init
Init ==
    /\ max_size \in 1..MaxCap
    /\ prv = [n \in Nodes |-> None]
    /\ nxt = [n \in Nodes |-> None]
    /\ data = [n \in Nodes |-> NoItem]
    /\ front = None
    /\ back = None
    /\ dict = << >>
    /\ call = Call("new", None, None, MISSING)
    /\ ret = Returned(None)
    /\ hit = FALSE
    /\ recency = << >>
    /\ lastPut = [k \in Keys |-> None]
    /\ scen = 0
    /\ m_dict = << >>
    /\ m_max_size = max_size
    /\ m_ret = Returned(None)
    /\ arg = IntArg(max_size)
    /\ NoThreads
    /\ lock = FALSE

Install(S) ==
    /\ prv' = S.prv
    /\ nxt' = S.nxt
    /\ data' = S.data
    /\ front' = S.front
    /\ back' = S.back
    /\ dict' = S.dict
    /\ max_size' = S.max_size

Get(key, default_value) ==
    /\ LET r == get(Cache, key, default_value)
           c == Call("get", key, None, default_value)
       IN  /\ Install(r.state)
           /\ ret' = r.result
           /\ call' = c
           /\ scen' = ScenNext(c)
    /\ hit' = (key \in DOMAIN dict)
    /\ recency' = IF key \in DOMAIN dict THEN Touch(recency, key)
                  ELSE recency
    /\ UNCHANGED lastPut
    /\ UNCHANGED mainVars
    /\ UNCHANGED auxVars

Put(key, value) ==
    /\ \E fresh \in FreeNodes(Cache) :
         LET r == put(Cache, key, value, fresh)
             c == Call("put", key, value, MISSING)
         IN  /\ Install(Collect(r.state))
             /\ ret' = r.result
             /\ call' = c
             /\ scen' = ScenNext(c)
    /\ hit' = (key \in DOMAIN dict)
    /\ recency' = Touch(recency, key)
    /\ lastPut' = [lastPut EXCEPT ![key] = value]
    /\ UNCHANGED mainVars
    /\ UNCHANGED auxVars

MGet(key, default_value) ==
    /\ LET r == m_get(MCache, key, default_value)
       IN  /\ m_dict' = r.state.dict
           /\ m_max_size' = r.state.max_size
           /\ m_ret' = r.result
    /\ call' = Call("get", key, None, default_value)
    /\ UNCHANGED dllVars
    /\ UNCHANGED auxVars

MPut(key, value) ==
    /\ LET r == m_put(MCache, key, value)
       IN  /\ m_dict' = r.state.dict
           /\ m_max_size' = r.state.max_size
           /\ m_ret' = r.result
    /\ call' = Call("put", key, value, MISSING)
    /\ UNCHANGED dllVars
    /\ UNCHANGED auxVars

Next ==
    \/ \E k \in Keys, d \in Defaults : Get(k, d)
    \/ \E k \in Keys, v \in Values : Put(k, v)

Spec == Init /\ [][Next]_vars

\* The calls made on the dict-based cache of main.py.
NextMain ==
    \/ \E k \in Keys, d \in Defaults : MGet(k, d)
    \/ \E k \in Keys, v \in Values : MPut(k, v)

\* A main.py cache on its own: its capacity is chosen independently.
InitMain ==
    /\ max_size \in 1..MaxCap
    /\ prv = [n \in Nodes |-> None]
    /\ nxt = [n \in Nodes |-> None]
    /\ data = [n \in Nodes |-> NoItem]
    /\ front = None
    /\ back = None
    /\ dict = << >>
    /\ call = Call("new", None, None, MISSING)
    /\ ret = Returned(None)
    /\ hit = FALSE
    /\ recency = << >>
    /\ lastPut = [k \in Keys |-> None]
    /\ scen = 0
    /\ m_dict = << >>
    /\ m_max_size \in 1..MaxCapMain
    /\ m_ret = Returned(None)
    /\ arg = IntArg(m_max_size)
    /\ NoThreads
    /\ lock = FALSE

SpecMain == InitMain /\ [][NextMain]_vars

\* The same call made on both caches, built with the same capacity.
BGet(key, default_value) ==
    /\ LET r == get(Cache, key, default_value)
           m == m_get(MCache, key, default_value)
           c == Call("get", key, None, default_value)
       IN  /\ Install(r.state)
           /\ ret' = r.result
           /\ call' = c
           /\ scen' = ScenNext(c)
           /\ m_dict' = m.state.dict
           /\ m_max_size' = m.state.max_size
           /\ m_ret' = m.result
    /\ hit' = (key \in DOMAIN dict)
    /\ recency' = IF key \in DOMAIN dict THEN Touch(recency, key)
                  ELSE recency
    /\ UNCHANGED lastPut
    /\ UNCHANGED auxVars

BPut(key, value) ==
    /\ \E fresh \in FreeNodes(Cache) :
         LET r == put(Cache, key, value, fresh)
             m == m_put(MCache, key, value)
             c == Call("put", key, value, MISSING)
         IN  /\ Install(Collect(r.state))
             /\ ret' = r.result
             /\ call' = c
             /\ scen' = ScenNext(c)
             /\ m_dict' = m.state.dict
             /\ m_max_size' = m.state.max_size
             /\ m_ret' = m.result
    /\ hit' = (key \in DOMAIN dict)
    /\ recency' = Touch(recency, key)
    /\ lastPut' = [lastPut EXCEPT ![key] = value]
    /\ UNCHANGED auxVars

NextBoth ==
    \/ \E k \in Keys, d \in Defaults : BGet(k, d)
    \/ \E k \in Keys, v \in Values : BPut(k, v)

SpecBoth == Init /\ [][NextBoth]_vars

\* Construction as a step: LRUCache(a) is tried until it succeeds, then
\* get and put are called on the cache it made.
InitNew ==
    /\ max_size = None
    /\ prv = NoCache.prv
    /\ nxt = NoCache.nxt
    /\ data = NoCache.data
    /\ front = None
    /\ back = None
    /\ dict = << >>
    /\ call = Call("start", None, None, MISSING)
    /\ ret = Returned(None)
    /\ hit = FALSE
    /\ recency = << >>
    /\ lastPut = [k \in Keys |-> None]
    /\ scen = 0
    /\ m_dict = << >>
    /\ m_max_size = None
    /\ m_ret = Returned(None)
    /\ arg = NoArg
    /\ NoThreads
    /\ lock = FALSE

New(a) ==
    /\ max_size = None
    /\ LET r == LRUCache_init(a)
       IN  /\ Install(r.state)
           /\ ret' = r.result
    /\ call' = Call("new", None, None, MISSING)
    /\ arg' = a
    /\ UNCHANGED thrVars
    /\ UNCHANGED <<hit, recency, lastPut, scen>>
    /\ UNCHANGED mainVars

NextNew ==
    \/ \E a \in Args : New(a)
    \/ \E k \in Keys, d \in Defaults : max_size # None /\ Get(k, d)
    \/ \E k \in Keys, v \in Values : max_size # None /\ Put(k, v)

SpecNew == InitNew /\ [][NextNew]_vars

\* ------------------------------------------------- _DLList on its own
\* The operations of a _DLList called directly on the node objects; the
\* key field of call carries the node.
LCall(op, n) == Call(op, n, None, MISSING)

InList(n) == n \in Range(ListNodes(Cache))

InitList ==
    /\ max_size = None
    /\ prv = NoCache.prv
    /\ nxt = NoCache.nxt
    /\ data = NoCache.data
    /\ front = None
    /\ back = None
    /\ dict = << >>
    /\ call = Call("start", None, None, MISSING)
    /\ ret = Returned(None)
    /\ hit = FALSE
    /\ recency = << >>
    /\ lastPut = [k \in Keys |-> None]
    /\ scen = 0
    /\ m_dict = << >>
    /\ m_max_size = None
    /\ m_ret = Returned(None)
    /\ arg = NoArg
    /\ NoThreads
    /\ lock = FALSE

ListFrame ==
    /\ UNCHANGED <<hit, recency, lastPut, scen>>
    /\ UNCHANGED mainVars
    /\ UNCHANGED auxVars

LPushFront(n) ==
    /\ ~InList(n)
    /\ Install(push_front(Cache, n))
    /\ ret' = Returned(None)
    /\ call' = LCall("push_front", n)
    /\ ListFrame

LPushBack(n) ==
    /\ ~InList(n)
    /\ Install(push_back(Cache, n))
    /\ ret' = Returned(None)
    /\ call' = LCall("push_back", n)
    /\ ListFrame

LEject(n) ==
    /\ InList(n)
    /\ Install(eject(Cache, n))
    /\ ret' = Returned(n)
    /\ call' = LCall("eject", n)
    /\ ListFrame

LPopFront ==
    /\ LET r == pop_front(Cache)
       IN  /\ Install(r.state)
           /\ ret' = IF r.raised THEN Raised("IsEmptyError")
                     ELSE Returned(r.node)
    /\ call' = LCall("pop_front", None)
    /\ ListFrame

LPopBack ==
    /\ LET r == pop_back(Cache)
       IN  /\ Install(r.state)
           /\ ret' = IF r.raised THEN Raised("IsEmptyError")
                     ELSE Returned(r.node)
    /\ call' = LCall("pop_back", None)
    /\ ListFrame

LMoveToFront(n) ==
    /\ InList(n)
    /\ Install(move_to_front(Cache, n))
    /\ ret' = Returned(n)
    /\ call' = LCall("move_to_front", n)
    /\ ListFrame

LMoveToBack(n) ==
    /\ InList(n)
    /\ Install(move_to_back(Cache, n))
    /\ ret' = Returned(n)
    /\ call' = LCall("move_to_back", n)
    /\ ListFrame

NextList ==
    \/ \E n \in Nodes : LPushFront(n)
    \/ \E n \in Nodes : LPushBack(n)
    \/ \E n \in Nodes : LEject(n)
    \/ LPopFront
    \/ LPopBack
    \/ \E n \in Nodes : LMoveToFront(n)
    \/ \E n \in Nodes : LMoveToBack(n)

SpecList == InitList /\ [][NextList]_vars

\* ------------------------------------------ two threads sharing one cache
\* Each thread executes put and get one statement at a time; a switch of
\* threads can happen between any two statements. With lock, a call starts
\* only when no other call is under way, so that calls do not interleave.

\* The allocator hands out the lowest free address.
Least(s) == CHOOSE n \in s : \A m \in s : n <= m

\* The nodes in set and those reachable from them by prv and nxt.
RECURSIVE Closure(_, _)
Closure(S, set) ==
    LET more == (set \cup {S.prv[n] : n \in set} \cup {S.nxt[n] : n \in set})
                \cap Nodes
    IN  IF more = set THEN set ELSE Closure(S, more)

\* The nodes something still refers to: the list, the dict, a local.
Referenced(S, l) ==
    Closure(S, ({S.front, S.back} \cup Range(S.dict)
                \cup {l[t].node : t \in Threads}
                \cup {l[t].lru_node : t \in Threads}) \cap Nodes)

\* A node nothing refers to is deallocated.
Dealloc(S, l) ==
    LET live == Referenced(S, l)
    IN  [S EXCEPT !.data = [n \in Nodes |->
                              IF n \in live THEN S.data[n] ELSE NoItem],
                  !.prv = [n \in Nodes |->
                              IF n \in live THEN S.prv[n] ELSE None],
                  !.nxt = [n \in Nodes |->
                              IF n \in live THEN S.nxt[n] ELSE None]]

\* node = self._dict.get(key, _MISSING)
dict_get(S, key) == IF key \in DOMAIN S.dict THEN S.dict[key] ELSE MISSING

\* node.data.value = value
put_166(S, node, value) == [S EXCEPT !.data[node].value = value]

\* The entry of the node taken from the back stays in the dict.
put_172_skip(S, lru_node) == S

\* del self._dict[lru_node.data.key]
put_172(S, lru_node) ==
    [S EXCEPT !.dict = DictDel(S.dict, S.data[lru_node].key)]

\* node = _DLListNode(_Item(key, value))
put_174(S, key, value, fresh) ==
    [S EXCEPT !.data[fresh] = [key |-> key, value |-> value],
              !.prv[fresh] = None, !.nxt[fresh] = None]

\* self._dict[key] = node
put_175(S, key, node) == [S EXCEPT !.dict = DictSet(S.dict, key, node)]

InitConc ==
    /\ max_size \in 1..MaxCap
    /\ prv = [n \in Nodes |-> None]
    /\ nxt = [n \in Nodes |-> None]
    /\ data = [n \in Nodes |-> NoItem]
    /\ front = None
    /\ back = None
    /\ dict = << >>
    /\ call = Call("new", None, None, MISSING)
    /\ ret = Returned(None)
    /\ hit = FALSE
    /\ recency = << >>
    /\ lastPut = [k \in Keys |-> None]
    /\ scen = Off
    /\ m_dict = << >>
    /\ m_max_size = max_size
    /\ m_ret = Returned(None)
    /\ arg = IntArg(max_size)
    /\ NoThreads
    /\ lock \in BOOLEAN

\* A call may start: without the lock always, with it when no other
\* thread is inside a call.
Acquire(t) == lock => \A u \in Threads \ {t} : pc[u] = "idle"

\* Thread t has executed one statement: the cache is S, its locals are l,
\* it goes on at line p (or has raised e and is back to idle).
Step(t, S, l, p, e) ==
    LET ls == [loc EXCEPT ![t] = IF p = "idle" THEN NoLocals ELSE l]
    IN  /\ Install(Dealloc(S, ls))
        /\ loc' = ls
        /\ pc' = [pc EXCEPT ![t] = p]
        /\ exc' = [exc EXCEPT ![t] = e]
        /\ UNCHANGED <<call, ret, hit, recency, lastPut, scen, arg, lock>>
        /\ UNCHANGED mainVars

\* put, lines 162-163: the lookup and the test of its result
TPut(t, key, value) ==
    /\ pc[t] = "idle"
    /\ ncalls < MaxCalls
    /\ Acquire(t)
    /\ ncalls' = ncalls + 1
    /\ LET node == dict_get(Cache, key)
           l == [key |-> key, value |-> value, node |-> node,
                 lru_node |-> None]
       IN  Step(t, Cache, l, IF node # MISSING THEN "put165" ELSE "put170",
                "none")

\* self._dllist.move_to_front(node)
TPut165(t) ==
    /\ pc[t] = "put165"
    /\ UNCHANGED ncalls
    /\ Step(t, move_to_front(Cache, loc[t].node), loc[t], "put166", "none")

\* node.data.value = value; return
TPut166(t) ==
    /\ pc[t] = "put166"
    /\ UNCHANGED ncalls
    /\ Step(t, put_166(Cache, loc[t].node, loc[t].value), loc[t], "idle",
            "none")

\* if self.full:
TPut170(t) ==
    /\ pc[t] = "put170"
    /\ UNCHANGED ncalls
    /\ Step(t, Cache, loc[t], IF full(Cache) THEN "put171" ELSE "put174",
            "none")

\* lru_node = self._dllist.pop_back()
TPut171(t) ==
    /\ pc[t] = "put171"
    /\ UNCHANGED ncalls
    /\ LET r == pop_back(Cache)
       IN  IF r.raised
           THEN Step(t, Cache, loc[t], "idle", "IsEmptyError")
           ELSE Step(t, r.state, [loc[t] EXCEPT !.lru_node = r.node],
                     "put172", "none")

\* del self._dict[lru_node.data.key]
TPut172(t) ==
    /\ pc[t] = "put172"
    /\ UNCHANGED ncalls
    /\ IF data[loc[t].lru_node].key \notin DOMAIN dict
       THEN Step(t, Cache, loc[t], "idle", "KeyError")
       ELSE Step(t, put_172(Cache, loc[t].lru_node), loc[t], "put174", "none")

\* node = _DLListNode(_Item(key, value))
TPut174(t) ==
    /\ pc[t] = "put174"
    /\ UNCHANGED ncalls
    /\ Nodes \ Referenced(Cache, loc) # {}
    /\ LET fresh == Least(Nodes \ Referenced(Cache, loc))
       IN
         Step(t, put_174(Cache, loc[t].key, loc[t].value, fresh),
              [loc[t] EXCEPT !.node = fresh], "put175", "none")

\* self._dict[key] = node
TPut175(t) ==
    /\ pc[t] = "put175"
    /\ UNCHANGED ncalls
    /\ Step(t, put_175(Cache, loc[t].key, loc[t].node), loc[t], "put176",
            "none")

\* self._dllist.push_front(node); return
TPut176(t) ==
    /\ pc[t] = "put176"
    /\ UNCHANGED ncalls
    /\ Step(t, push_front(Cache, loc[t].node), loc[t], "idle", "none")

\* get(key), lines 151-152 and, on a miss, 155-158
TGet(t, key) ==
    /\ pc[t] = "idle"
    /\ ncalls < MaxCalls
    /\ Acquire(t)
    /\ ncalls' = ncalls + 1
    /\ LET node == dict_get(Cache, key)
           l == [NoLocals EXCEPT !.key = key, !.node = node]
       IN  IF node # MISSING
           THEN Step(t, Cache, l, "get154", "none")
           ELSE Step(t, Cache, l, "idle", "KeyError")

\* self._dllist.move_to_front(node); return node.data.value
TGet154(t) ==
    /\ pc[t] = "get154"
    /\ UNCHANGED ncalls
    /\ Step(t, move_to_front(Cache, loc[t].node), loc[t], "idle", "none")

NextConc ==
    \/ \E t \in Threads, k \in Keys, v \in ThreadValues : TPut(t, k, v)
    \/ \E t \in Threads : TPut165(t)
    \/ \E t \in Threads : TPut166(t)
    \/ \E t \in Threads : TPut170(t)
    \/ \E t \in Threads : TPut171(t)
    \/ \E t \in Threads : TPut172(t)
    \/ \E t \in Threads : TPut174(t)
    \/ \E t \in Threads : TPut175(t)
    \/ \E t \in Threads : TPut176(t)
    \/ \E t \in Threads, k \in Keys : TGet(t, k)
    \/ \E t \in Threads : TGet154(t)

SpecConc == InitConc /\ [][NextConc]_vars

\* ------------------------------------------------------------------ claims
Size == Cardinality(DOMAIN dict)
KeysOf(S) == {S.data[n].key : n \in Range(ListNodes(S))}
ValueOf(S, k) == S.data[S.dict[k]].value
Evicted == Len(recency) > Size   \* some key accessed is no longer held

\* C1: after every call, 0 <= len(_dict) <= max_size, and the number of
\* nodes reachable in the recency list (from the front by nxt, and from the
\* back by prv) equals len(_dict).
C1_Capacity ==
    /\ 0 <= Size
    /\ Size <= max_size
    /\ Len(ListNodes(Cache)) = Size
    /\ Len(WalkBack(Cache, back, Cardinality(Nodes) + 1)) = Size

\* A full cache of two entries that has already evicted a key.
C1_Witness ==
    /\ max_size = MaxCap
    /\ Size = max_size
    /\ Evicted
    /\ call.op = "put" /\ ~hit

\* C2: the keys of _dict are exactly the keys held by the nodes reachable
\* from the front, no key is held by two list nodes, and _dict[k] is a node
\* of the list whose item has key k; no node outside the list is referred
\* to by _dict (no handle to an evicted node).
C2_Consistency ==
    LET ns == ListNodes(Cache)
    IN  /\ DOMAIN dict = KeysOf(Cache)
        /\ \A i, j \in 1..Len(ns) :
              i # j => ns[i] # ns[j] /\ data[ns[i]].key # data[ns[j]].key
        /\ \A k \in DOMAIN dict :
              dict[k] \in Range(ns) /\ data[dict[k]].key = k
        /\ \A n \in Nodes \ Range(ns) :
              n \notin Range(dict) /\ prv[n] = None /\ nxt[n] = None

\* A key was evicted by the put of another key, which is now held.
C2_Witness ==
    /\ Evicted
    /\ Size >= 2
    /\ call.op = "put" /\ ~hit
    /\ call.key \in DOMAIN dict
    /\ \E k \in Keys : lastPut[k] # None /\ k \notin DOMAIN dict

\* Place of key k in the order of last accesses r (1: accessed last).
Pos(r, k) == CHOOSE i \in 1..Len(r) : r[i] = k

\* C3: a put of an absent key into a full cache removes exactly one entry,
\* the one whose last access is older than the last access of every other
\* entry held; into a cache that is not full it removes nothing. After
\* main()'s put(1,2); put(10,20); get(1); put(100,200) with capacity 2,
\* key 10 is gone and key 1 is kept.
C3_Eviction ==
    [][ (call'.op = "put" /\ call'.key \notin DOMAIN dict) =>
          LET k == call'.key
              gone == DOMAIN dict \ DOMAIN dict'
          IN  /\ DOMAIN dict' = (DOMAIN dict \ gone) \cup {k}
              /\ Size = max_size =>
                    /\ Cardinality(gone) = 1
                    /\ Size' = Size
                    /\ \A g \in gone : \A o \in DOMAIN dict \ {g} :
                          Pos(recency, g) > Pos(recency, o)
              /\ Size < max_size => gone = {} /\ Size' = Size + 1
              /\ scen' = 4 => /\ 10 \notin DOMAIN dict'
                              /\ 1 \in DOMAIN dict'
                              /\ 100 \in DOMAIN dict'
      ]_vars

\* main() has just made its put(100, 200): key 10 was evicted.
C3_Witness ==
    /\ scen = 4
    /\ call = Scenario[4]
    /\ ~hit
    /\ DOMAIN dict = {1, 100}
    /\ recency = <<100, 1, 10>>

C5_Update ==
    [][ (call'.op = "put" /\ call'.key \in DOMAIN dict) =>
          LET k == call'.key
          IN  /\ DOMAIN dict' = DOMAIN dict
              /\ Size' = Size
              /\ Len(ListNodes(Cache))' = Len(ListNodes(Cache))
              /\ KeysOf(Cache)' = KeysOf(Cache)
              /\ ValueOf(Cache', k) = call'.value
              /\ \A o \in DOMAIN dict \ {k} :
                    ValueOf(Cache, o)' = ValueOf(Cache, o)
      ]_vars

\* A put has just updated a key of a full cache, not the one at the back
\* before it, with a value other than the one some earlier put gave it.
C5_Witness ==
    /\ call.op = "put" /\ hit
    /\ Size = max_size /\ max_size = MaxCap
    /\ ValueOf(Cache, call.key) = call.value
    /\ \E o \in DOMAIN dict \ {call.key} : ValueOf(Cache, o) # call.value

\* C6: a get that hits returns the value given by the most recent put of
\* that key, and no get changes the key set or the value stored for a key.
C6_ReadLastPut ==
    [][ call'.op = "get" =>
          /\ call'.key \in DOMAIN dict =>
                ret' = Returned(lastPut[call'.key])
          /\ DOMAIN dict' = DOMAIN dict
          /\ \A k \in DOMAIN dict : ValueOf(Cache, k)' = ValueOf(Cache, k)
      ]_vars

\* A get has just hit, after an eviction, with a default other than the
\* value it returned.
C6_Witness ==
    /\ call.op = "get" /\ hit
    /\ Evicted
    /\ ret = Returned(lastPut[call.key])
    /\ call.default \notin {MISSING, ret.val}

\* C7: a get of an absent key, with or without a default, leaves the whole
\* cache unchanged: links, items, front, back, dict and capacity, hence the
\* key set, the values, the size and the front-to-back order.
C7_MissPurity ==
    [][ (call'.op = "get" /\ call'.key \notin DOMAIN dict) =>
          /\ UNCHANGED <<prv, nxt, data, front, back, dict, max_size>>
          /\ ListKeys(Cache)' = ListKeys(Cache)
          /\ Size' = Size
      ]_vars

\* A get with a default has just missed on a full cache.
C7_Witness ==
    /\ call.op = "get" /\ ~hit
    /\ call.default # MISSING
    /\ Size = max_size /\ max_size = MaxCap

\* C8: a get of an absent key raises KeyError exactly when no default was
\* supplied, and returns the default (None included) when one was; a get
\* that hits returns the stored value whatever the default. In main(),
\* get(10, None) returns None.
C8_GetResult ==
    call.op = "get" =>
        /\ ret.kind \in {"return", "KeyError"}
        /\ ~hit => /\ (ret.kind = "KeyError") <=> (call.default = MISSING)
                   /\ call.default # MISSING => ret = Returned(call.default)
        /\ hit => ret = Returned(ValueOf(Cache, call.key))
        /\ scen = 5 => ret = Returned(None)

\* main() has just made its get(10, None).
C8_Witness ==
    /\ scen = 5
    /\ call = Scenario[5]
    /\ ~hit
    /\ ret = Returned(None)

Min(a, b) == IF a < b THEN a ELSE b

\* C9: the keys of the cache from front to back are the keys accessed so
\* far (by a put or by a get that hit) from the last accessed to the first
\* accessed, cut to the first max_size of them.
C9_ReferenceLRU ==
    ListKeys(Cache) = SubSeq(recency, 1, Min(max_size, Len(recency)))

\* A get has just hit in a full cache that has evicted a key.
C9_Witness ==
    /\ call.op = "get" /\ hit
    /\ Len(recency) > max_size
    /\ Size = max_size /\ max_size = MaxCap
    /\ ListKeys(Cache)[1] = call.key

\* C10: on the cache of main.py, a put of a present key updates its value
\* and leaves the number of entries and the key set unchanged (nothing is
\* evicted), full or not.
C10_MainUpdate ==
    [][ (call'.op = "put" /\ call'.key \in MKeys(m_dict)) =>
          /\ Len(m_dict') = Len(m_dict)
          /\ MKeys(m_dict') = MKeys(m_dict)
          /\ MValue(m_dict', call'.key) = call'.value
      ]_vars

\* C11: on the cache of main.py, after a put of a present key that key is
\* the most recently used one: it is last in the dict's iteration order,
\* the order in which puts of new keys evict.
C11_MainRecency ==
    [][ (call'.op = "put" /\ call'.key \in MKeys(m_dict)) =>
          /\ Len(m_dict') >= 1
          /\ MKeySeq(m_dict')[Len(m_dict')] = call'.key
      ]_vars

Reverse(s) == [i \in 1..Len(s) |-> s[Len(s) + 1 - i]]

\* C12: the two caches, given the same capacity and the same calls, return
\* the same result at every call and hold the same key-to-value mapping
\* after it, the dict order of main.py (first: next to evict) being the
\* back-to-front order of the recency list.
C12_Equivalent ==
    /\ m_ret = ret
    /\ MKeys(m_dict) = DOMAIN dict
    /\ \A k \in DOMAIN dict : MValue(m_dict, k) = ValueOf(Cache, k)
    /\ MKeySeq(m_dict) = Reverse(ListKeys(Cache))

\* C13: a get of a present key made right after a get of the same key
\* returns the same value and leaves the whole cache unchanged: links,
\* items, front, back, dict and capacity.
C13_IdempotentRead ==
    [][ (call.op = "get" /\ hit /\ call'.op = "get"
         /\ call'.key = call.key) =>
          /\ ret' = ret
          /\ ret' = Returned(ValueOf(Cache, call.key))
          /\ UNCHANGED <<prv, nxt, data, front, back, dict, max_size>>
      ]_vars

\* A get with a default has just hit in a full cache and left its key at
\* the front: the state every further get of that key starts from.
C13_Witness ==
    /\ call.op = "get" /\ hit
    /\ call.default # MISSING
    /\ Size = max_size /\ max_size = MaxCap
    /\ data[front].key = call.key
    /\ recency[1] = call.key

\* C14: no put raises IsEmptyError: whenever the cache is full, which is
\* exactly when len(_dict) = max_size, the list has a back node to pop.
C14_NoEmptyError ==
    /\ ret.kind # "IsEmptyError"
    /\ full(Cache) <=> (Size = max_size)
    /\ full(Cache) => (~empty(Cache) /\ back # None /\ front # None)
    /\ (call.op = "put") => ret = Returned(None)

\* A put of an absent key has just popped the back of a full list.
C14_Witness ==
    /\ call.op = "put" /\ ~hit
    /\ Evicted
    /\ full(Cache)
    /\ ret = Returned(None)

\* C15: LRUCache(a) raises ValueError for an int a <= 0 and TypeError for
\* anything that is not an int (no argument included), and then there is
\* no cache; for an int a >= 1 it makes an empty cache with max_size = a;
\* no later get or put changes max_size.
C15_Construction ==
    [][ /\ call'.op = "new" =>
             IF arg'.type = "int" /\ arg'.val >= 1
             THEN /\ ret' = Returned(None)
                  /\ max_size' = arg'.val
                  /\ dict' = << >>
                  /\ front' = None /\ back' = None
                  /\ Len(ListNodes(Cache))' = 0
             ELSE /\ ret' = Raised(IF arg'.type = "int" THEN "ValueError"
                                   ELSE "TypeError")
                  /\ max_size' = None
                  /\ UNCHANGED <<prv, nxt, data, front, back, dict>>
        /\ max_size # None => max_size' = max_size
      ]_vars

\* LRUCache(0) has just raised ValueError and left no cache.
C15_Witness ==
    /\ call.op = "new"
    /\ arg = IntArg(0)
    /\ ret = Raised("ValueError")
    /\ max_size = None

BackNodes(S) == WalkBack(S, S.back, Cardinality(Nodes) + 1)

\* C16: in a _DLList, front is None iff back is None; front has no prv and
\* back no nxt; the links of every node of the list are mutual; following
\* nxt from front visits each node once and ends at back (no cycle, no
\* self-loop), and following prv from back visits the same nodes reversed.
C16_ListShape ==
    LET ns == ListNodes(Cache)
    IN  /\ (front = None) <=> (back = None)
        /\ front # None => prv[front] = None /\ nxt[back] = None
        /\ \A n \in Range(ns) :
              /\ nxt[n] = None \/ prv[nxt[n]] = n
              /\ prv[n] = None \/ nxt[prv[n]] = n
              /\ nxt[n] # n /\ prv[n] # n
        /\ \A i, j \in 1..Len(ns) : i # j => ns[i] # ns[j]
        /\ Len(ns) <= Cardinality(Nodes)
        /\ ns # << >> => ns[Len(ns)] = back
        /\ BackNodes(Cache) = Reverse(ns)

\* A list of three nodes whose middle node was just moved to the back.
C16_Witness ==
    /\ call.op = "move_to_back"
    /\ Len(ListNodes(Cache)) = 3
    /\ back = call.key
    /\ ret = Returned(back)

\* C17: move_to_front of the front node changes nothing; of another node
\* of the list it gives the list of eject followed by push_front: the node
\* is the front, the other nodes keep their order, the length is the same,
\* and when the node was the back its predecessor is the new back.
C17_MoveToFront ==
    [][ call'.op = "move_to_front" =>
          LET n == call'.key
              before == ListNodes(Cache)
              after == ListNodes(Cache)'
              twoSteps == push_front(eject(Cache, n), n)
          IN  IF front = n
              THEN UNCHANGED <<prv, nxt, data, front, back>>
              ELSE /\ after = <<n>> \o SelectSeq(before, LAMBDA x : x # n)
                   /\ Len(after) = Len(before)
                   /\ front' = n
                   /\ back' = (IF back = n THEN prv[n] ELSE back)
                   /\ BackNodes(Cache)' = Reverse(after)
                   /\ <<prv', nxt', front', back'>> =
                        <<twoSteps.prv, twoSteps.nxt,
                          twoSteps.front, twoSteps.back>>
      ]_vars

\* The back of a list of three nodes was just moved to the front.
C17_Witness ==
    /\ call.op = "move_to_front"
    /\ Len(ListNodes(Cache)) = 3
    /\ front = call.key
    /\ ret = Returned(front)

\* C18: pop_front and pop_back of an empty list raise IsEmptyError and
\* change nothing; of a non-empty list they take out and return the front
\* (the back) with both its links cleared; taking out the only node, by
\* eject or a pop, leaves front and back None.
C18_Pop ==
    [][ LET before == ListNodes(Cache)
            after == ListNodes(Cache)'
            pop == call'.op \in {"pop_front", "pop_back"}
            took == IF call'.op = "pop_front" THEN front
                    ELSE IF call'.op = "pop_back" THEN back
                    ELSE call'.key
        IN  /\ (pop /\ before = << >>) =>
                  /\ ret' = Raised("IsEmptyError")
                  /\ UNCHANGED <<prv, nxt, data, front, back>>
            /\ (pop /\ before # << >>) =>
                  /\ ret' = Returned(took)
                  /\ prv'[took] = None /\ nxt'[took] = None
                  /\ after = SelectSeq(before, LAMBDA x : x # took)
                  /\ Len(after) = Len(before) - 1
            /\ (call'.op = "pop_front" /\ before # << >>) =>
                  took = before[1]
            /\ (call'.op = "pop_back" /\ before # << >>) =>
                  took = before[Len(before)]
            /\ ((pop \/ call'.op = "eject") /\ before = <<took>>) =>
                  front' = None /\ back' = None /\ after = << >>
      ]_vars

\* pop_back has just taken the back out of a list of three nodes.
C18_Witness ==
    /\ call.op = "pop_back"
    /\ ret.kind = "return"
    /\ Len(ListNodes(Cache)) = 2
    /\ ret.val \notin Range(ListNodes(Cache))
    /\ prv[ret.val] = None /\ nxt[ret.val] = None

Max(s) == CHOOSE x \in s : \A y \in s : y <= x

\* C19: a key held leaves the cache only in a put of another, absent key
\* into a full cache, and only when it is at the back of the recency list;
\* no get and no put of a key held removes a key, and no call removes more
\* than one key.
C19_OnlyEviction ==
    [][ LET gone == (DOMAIN dict) \ (DOMAIN dict')
        IN  /\ Cardinality(gone) <= 1
            /\ \A k \in gone :
                  /\ call'.op = "put"
                  /\ call'.key # k
                  /\ call'.key \notin DOMAIN dict
                  /\ Size = max_size
                  /\ back # None
                  /\ data[back].key = k
                  /\ k = recency[Max({Pos(recency, x) : x \in DOMAIN dict})]
            /\ call'.op = "get" => gone = {}
            /\ (call'.op = "put" /\ call'.key \in DOMAIN dict) => gone = {}
      ]_vars

\* put(100, .) into a full cache of two has just removed key 1, which was
\* put first and never read; key 10 stays.
C19_Witness ==
    /\ max_size = 2
    /\ call.op = "put" /\ call.key = 100
    /\ ~hit
    /\ DOMAIN dict = {10, 100}
    /\ recency = <<100, 10, 1>>

Idle == \A t \in Threads : pc[t] = "idle"

\* C20: when every call runs under the lock, the cache is within its
\* capacity and its dict and list agree whenever no call is under way;
\* without the lock, two puts whose statements interleave can both return
\* and leave more entries than max_size.
C20_AtomicSafe ==
    (lock /\ Idle) =>
        /\ Size <= max_size
        /\ Len(ListNodes(Cache)) = Size
        /\ Len(BackNodes(Cache)) = Size
        /\ DOMAIN dict = KeysOf(Cache)
        /\ \A i, j \in 1..Len(ListNodes(Cache)) :
              i # j => data[ListNodes(Cache)[i]].key
                         # data[ListNodes(Cache)[j]].key
        /\ \A k \in DOMAIN dict :
              dict[k] \in Range(ListNodes(Cache)) /\ data[dict[k]].key = k

\* No lock: two puts of new keys into an empty cache of one place have
\* both returned, and the cache holds two entries.
C20_Witness ==
    /\ ~lock
    /\ Idle
    /\ ncalls = 2
    /\ \A t \in Threads : exc[t] = "none"
    /\ max_size = 1
    /\ Size = 2

\* No lock: two puts of one new key have both returned, and two nodes of
\* the list hold that key.
TwoNodesOneKey ==
    /\ ~lock
    /\ Idle
    /\ ncalls = 2
    /\ \A t \in Threads : exc[t] = "none"
    /\ Size = 1
    /\ Len(ListNodes(Cache)) = 2
    /\ data[front].key = data[back].key

====
